---- MODULE Spec2Model ----
(***************************************************************************)
(* A model of the Strands -> AG-UI bridge (strands_agui_agent/agent.py).   *)
(*                                                                         *)
(* StrandsAGUIAgent keeps a dict of ExecutionState objects and one Strands *)
(* agent.  run_streaming and continue_after_tools are async generators:    *)
(* each `yield` is a suspension point, and so is each pull of the next     *)
(* upstream event.  One action of the model runs a generator from one      *)
(* suspension point to the next.                                           *)
(***************************************************************************)
EXTENDS Integers, Sequences, FiniteSets, TLC

VARIABLES
    execution_states,   \* self.execution_states: key string -> object (0 = no entry)
    heap,               \* the ExecutionState objects, by the generator that created them
    messages,           \* self.strands_agent.messages, the engine's history
    strands_tools,      \* the names of the tools self.strands_agent was created with
    gen,                \* the generator invocations: position and local variables
    pulled,             \* per generator: the upstream events pulled so far (history)
    trace,              \* every downstream event yielded, in order, with its generator (history)
    uuid_next           \* number of uuid4() values drawn so far, plus one

vars == <<execution_states, heap, messages, strands_tools, gen, pulled, trace, uuid_next>>

(***************************************************************************)
(* Bounds of the model.                                                    *)
(***************************************************************************)
\* what the environment may do in one behaviour: the number of generator
\* invocations (run_streaming, continue_after_tools) plus the number of upstream
\* events the engine delivers
MaxCalls == 4

Gens == 1..MaxCalls

(***************************************************************************)
(* Values.                                                                 *)
(***************************************************************************)
\* Python's None, for the optional string current_message_id
None == "None"

\* the (thread_id, run_id) pairs callers use; the first two differ only in
\* where the ':' falls
Pairs == {<<"a", "b:c">>, <<"a:b", "c">>, <<"x", "y">>}

\* f"{thread_id}:{run_id}"
ExecKey(thread_id, run_id) == thread_id \o ":" \o run_id

Keys == {ExecKey(p[1], p[2]) : p \in Pairs}

\* two pairs with different keys
DistinctPairs == {<<"a", "b:c">>, <<"x", "y">>}

\* str(uuid.uuid4()): the n-th value drawn; distinct draws give distinct strings
Uuid(n) == "u" \o ToString(n)

ToolIds == {"t1", "t2"}

\* the name the engine reports for a tool call
ToolNameOf(id) == IF id = "t1" THEN "calculator" ELSE "search"

\* tool inputs: Python dicts, as sequences of <<key, value>> items
EmptyInput == <<>>
ExprInput == << <<"expression", "2+2">> >>
ToolInputs == {EmptyInput, ExprInput}

\* str(d) of a dict with string keys and values
RECURSIVE PyItems(_)
PyItems(d) ==
    IF d = <<>> THEN ""
    ELSE "'" \o d[1][1] \o "': '" \o d[1][2] \o "'"
         \o (IF Len(d) > 1 THEN ", " ELSE "") \o PyItems(Tail(d))

PyStr(d) == "{" \o PyItems(d) \o "}"

(***************************************************************************)
(* Python dicts keyed by a string id, in insertion order: a sequence of    *)
(* entries with distinct ids.                                              *)
(***************************************************************************)
DictKeys(d) == {d[i].id : i \in 1..Len(d)}

DictHas(d, id) == id \in DictKeys(d)

DictGet(d, id) == d[CHOOSE i \in 1..Len(d) : d[i].id = id]

\* d[id] = entry: replaces in place, or appends
DictSet(d, entry) ==
    IF DictHas(d, entry.id)
    THEN [i \in 1..Len(d) |-> IF d[i].id = entry.id THEN entry ELSE d[i]]
    ELSE Append(d, entry)

\* d.update(e)
RECURSIVE DictUpdate(_, _)
DictUpdate(d, e) ==
    IF e = <<>> THEN d ELSE DictUpdate(DictSet(d, Head(e)), Tail(e))

(***************************************************************************)
(* Downstream (AG-UI) events.  One record shape for all of them:           *)
(*   id  : message_id, tool_call_id, or thread_id of a run event           *)
(*   val : delta, tool_call_name, error code, run_id / result status       *)
(*   tool_calls : result["tool_calls"] of RunFinished, else empty          *)
(***************************************************************************)
AGUIEvent(type, id, val) ==
    [type |-> type, id |-> id, val |-> val, tool_calls |-> <<>>]

RunStartedEvent(thread_id, run_id) == AGUIEvent("RUN_STARTED", thread_id, run_id)

RunFinishedEvent(thread_id, status, calls) ==
    [type |-> "RUN_FINISHED", id |-> thread_id, val |-> status, tool_calls |-> calls]

RunErrorEvent(code) == AGUIEvent("RUN_ERROR", "", code)

TextMessageStartEvent(message_id) == AGUIEvent("TEXT_MESSAGE_START", message_id, "assistant")

TextMessageContentEvent(message_id, delta) == AGUIEvent("TEXT_MESSAGE_CONTENT", message_id, delta)

TextMessageEndEvent(message_id) == AGUIEvent("TEXT_MESSAGE_END", message_id, "")

ToolCallStartEvent(tool_call_id, name) == AGUIEvent("TOOL_CALL_START", tool_call_id, name)

ToolCallArgsEvent(tool_call_id, delta) == AGUIEvent("TOOL_CALL_ARGS", tool_call_id, delta)

ToolCallEndEvent(tool_call_id) == AGUIEvent("TOOL_CALL_END", tool_call_id, "")

\* faulty variant: the field declared without min_length
ValidDeltaUnconstrained(delta) == TRUE

\* delta: str = Field(min_length=1): constructing the event with "" raises
ValidDelta(delta) == delta # ""

(***************************************************************************)
(* Upstream (Strands) events.  One record shape for all of them:           *)
(*   shape : which keys the event carries                                  *)
(*   text  : delta text (None: the delta has no 'text'), stopReason, role  *)
(*   id, name, input : the toolUse triple                                  *)
(*   items : the content list of a complete message                        *)
(***************************************************************************)
StrandsEvent(shape, text, id, input, items) ==
    [shape |-> shape, text |-> text, id |-> id,
     name |-> IF id = "" THEN "" ELSE ToolNameOf(id),
     input |-> input, items |-> items]

ToolUseItem(id, input) == [kind |-> "toolUse", id |-> id, name |-> ToolNameOf(id), input |-> input]
TextItem == [kind |-> "text", id |-> "", name |-> "", input |-> <<>>]

\* the content lists of the complete messages the engine reports
MessageContents ==
    { <<ToolUseItem("t1", ExprInput)>>,
      <<TextItem, ToolUseItem("t1", ExprInput), ToolUseItem("t2", EmptyInput)>> }

\* the upstream events that drive the run lifecycle
CoreEvents ==
    \* {'event': {'messageStart': ...}}
    { StrandsEvent("messageStart", "", "", <<>>, <<>>) }
    \* {'event': {'contentBlockDelta': {'delta': {'text': ...}}}}
    \cup { StrandsEvent("contentBlockDelta", t, "", <<>>, <<>>) : t \in {"Hi", ""} }
    \* {'event': {'contentBlockStart': {'start': {'toolUse': ...}}}}
    \cup { StrandsEvent("contentBlockStart", "", "t1", EmptyInput, <<>>) }
    \* {'event': {'messageStop': {'stopReason': 'tool_use'}}}
    \cup { StrandsEvent("messageStop", "tool_use", "", <<>>, <<>>) }

\* all the upstream events of the model
StrandsEvents ==
    CoreEvents
    \* a contentBlockDelta whose delta has no 'text', and a second text
    \cup { StrandsEvent("contentBlockDelta", t, "", <<>>, <<>>) : t \in {None, " there"} }
    \cup { StrandsEvent("contentBlockStart", "", "t2", EmptyInput, <<>>) }
    \* {'current_tool_use': ...}
    \cup { StrandsEvent("current_tool_use", "", "t1", i, <<>>) : i \in ToolInputs }
    \cup { StrandsEvent("current_tool_use", "", "t2", ExprInput, <<>>) }
    \* {'message': {'role': ..., 'content': [...]}}
    \cup { StrandsEvent("message", "assistant", "", <<>>, c) : c \in MessageContents }
    \* {'event': {'messageStop': {'stopReason': ...}}}
    \cup { StrandsEvent("messageStop", "end_turn", "", <<>>, <<>>) }
    \* a dict with none of the keys above
    \cup { StrandsEvent("other", "", "", <<>>, <<>>) }
    \* {'event': None}: the key tests of the translator raise TypeError
    \cup { StrandsEvent("malformed", "", "", <<>>, <<>>) }
    \* a ModelStreamChunkEvent object carrying a text delta
    \cup { StrandsEvent("modelStreamChunk", "Hi", "", <<>>, <<>>) }
    \* an object with a truthy .result attribute
    \cup { StrandsEvent("result", "", "", <<>>, <<>>) }

(***************************************************************************)
(* ExecutionState.                                                         *)
(***************************************************************************)
\* faulty variant: a new state starts with a result already recorded
ExecutionStateWithResult(thread_id, run_id) ==
    [thread_id |-> thread_id, run_id |-> run_id,
     pending_tools |-> <<>>,
     tool_results |-> <<[id |-> "t1", result |-> "4"]>>,
     current_message_id |-> None,
     waiting_for_tools |-> FALSE]

ExecutionState(thread_id, run_id) ==
    [thread_id |-> thread_id, run_id |-> run_id,
     pending_tools |-> <<>>,        \* dict: entries [id, name, input]
     tool_results |-> <<>>,         \* dict: entries [id, result]
     current_message_id |-> None,
     waiting_for_tools |-> FALSE]

PendingEntry(id, name, input) == [id |-> id, name |-> name, input |-> input]

(***************************************************************************)
(* _convert_strands_to_agui_events: the translator.  Each operator gives   *)
(* the events returned, the ExecutionState after the call, and whether the *)
(* call raised.  `fresh` is the value uuid4() gives if the call draws one. *)
(***************************************************************************)
Translated(events, state) == [events |-> events, state |-> state, raised |-> FALSE]

\* the list `events` is local to the call: what it held is lost when the call raises
Raised(events, state) == [events |-> <<>>, state |-> state, raised |-> TRUE]

\* faulty variant: every 'messageStart' opens a new message
HandleMessageStartAlways(st, fresh) ==
    Translated(<<TextMessageStartEvent(fresh)>>, [st EXCEPT !.current_message_id = fresh])

\* 'messageStart'
HandleMessageStart(st, fresh) ==
    IF st.current_message_id = None
    THEN Translated(<<TextMessageStartEvent(fresh)>>,
                    [st EXCEPT !.current_message_id = fresh])
    ELSE Translated(<<>>, st)

\* a text delta, from 'contentBlockDelta' or from a ModelStreamChunkEvent
HandleTextDelta(text, st, fresh) ==
    LET opened == st.current_message_id = None
        st1 == IF opened THEN [st EXCEPT !.current_message_id = fresh] ELSE st
        pre == IF opened THEN <<TextMessageStartEvent(fresh)>> ELSE <<>>
    IN  IF ValidDelta(text)
        THEN Translated(pre \o <<TextMessageContentEvent(st1.current_message_id, text)>>, st1)
        ELSE Raised(pre, st1)

\* 'contentBlockDelta'
HandleContentBlockDelta(ev, st, fresh) ==
    IF ev.text = None THEN Translated(<<>>, st) ELSE HandleTextDelta(ev.text, st, fresh)

\* 'contentBlockStart' with a toolUse
HandleContentBlockStart(ev, st) ==
    Translated(<<ToolCallStartEvent(ev.id, ev.name)>>,
               [st EXCEPT !.pending_tools = DictSet(@, PendingEntry(ev.id, ev.name, ev.input))])

\* 'current_tool_use'
HandleCurrentToolUse(ev, st) ==
    LET new == ~DictHas(st.pending_tools, ev.id)
        st1 == IF new
               THEN [st EXCEPT !.pending_tools = DictSet(@, PendingEntry(ev.id, ev.name, ev.input))]
               ELSE st
        pre == IF new THEN <<ToolCallStartEvent(ev.id, ev.name)>> ELSE <<>>
    IN  Translated(pre \o <<ToolCallArgsEvent(ev.id, PyStr(ev.input))>>, st1)

\* faulty variant: every toolUse item registered and announced, as the
\* 'contentBlockStart' branch does
HandleContentItemAnnounced(item, r) ==
    IF item.kind = "toolUse"
    THEN Translated(
            r.events \o <<ToolCallStartEvent(item.id, item.name), ToolCallEndEvent(item.id)>>,
            [r.state EXCEPT !.pending_tools =
                DictSet(@, PendingEntry(item.id, item.name, item.input))])
    ELSE r

\* one content item of a complete message
HandleContentItem(item, r) ==
    IF item.kind = "toolUse"
    THEN Translated(
            r.events \o <<ToolCallEndEvent(item.id)>>,
            IF DictHas(r.state.pending_tools, item.id)
            THEN r.state
            ELSE [r.state EXCEPT !.pending_tools =
                      DictSet(@, PendingEntry(item.id, item.name, item.input))])
    ELSE r

RECURSIVE HandleContentItems(_, _)
HandleContentItems(items, r) ==
    IF items = <<>> THEN r
    ELSE HandleContentItems(Tail(items), HandleContentItem(Head(items), r))

\* 'message'
HandleMessage(ev, st) ==
    IF ev.text = "assistant"
    THEN HandleContentItems(ev.items, Translated(<<>>, st))
    ELSE Translated(<<>>, st)

ConvertStrandsToAguiEvents(ev, st, fresh) ==
    CASE ev.shape = "malformed" -> Raised(<<>>, st)
      [] ev.shape = "messageStart" -> HandleMessageStart(st, fresh)
      [] ev.shape = "contentBlockDelta" -> HandleContentBlockDelta(ev, st, fresh)
      [] ev.shape = "contentBlockStart" -> HandleContentBlockStart(ev, st)
      [] ev.shape = "current_tool_use" -> HandleCurrentToolUse(ev, st)
      [] ev.shape = "message" -> HandleMessage(ev, st)
      [] ev.shape = "modelStreamChunk" -> HandleTextDelta(ev.text, st, fresh)
      [] OTHER -> Translated(<<>>, st)

\* the call drew a uuid exactly if it assigned current_message_id
DrewUuid(st, r) == r.state.current_message_id # st.current_message_id

(***************************************************************************)
(* AG-UI messages and _convert_agui_message_to_strands.                    *)
(***************************************************************************)
AGUIMessage(role, content, tool_calls, tool_call_id, error) ==
    [role |-> role, content |-> content, tool_calls |-> tool_calls,
     tool_call_id |-> tool_call_id, error |-> error]

UserMessage(content) == AGUIMessage("user", content, <<>>, "", None)
SystemMessage(content) == AGUIMessage("system", content, <<>>, "", None)
AssistantMessage(content, tool_calls) == AGUIMessage("assistant", content, tool_calls, "", None)
ToolMessage(content, tool_call_id, error) == AGUIMessage("tool", content, <<>>, tool_call_id, error)

\* ToolCall(id, function=FunctionCall(name, arguments)); arguments is a str
ToolCall(id, arguments) == [id |-> id, name |-> ToolNameOf(id), arguments |-> arguments]

\* faulty variant: arguments that do not parse are taken as an empty input
JsonLoadsLenient(s) ==
    IF s = "{\"expression\": \"2+2\"}"
    THEN [ok |-> TRUE, value |-> ExprInput]
    ELSE [ok |-> TRUE, value |-> EmptyInput]

\* json.loads on the argument strings that occur: the value, or a JSONDecodeError
JsonLoads(s) ==
    CASE s = "{}" -> [ok |-> TRUE, value |-> EmptyInput]
      [] s = "{\"expression\": \"2+2\"}" -> [ok |-> TRUE, value |-> ExprInput]
      [] OTHER -> [ok |-> FALSE, value |-> <<>>]

\* content blocks of a Strands message
Block(kind, text, id, name, input, status) ==
    [kind |-> kind, text |-> text, id |-> id, name |-> name, input |-> input, status |-> status]

TextBlock(text) == Block("text", text, "", "", <<>>, "")
ToolUseBlock(id, name, input) == Block("toolUse", "", id, name, input, "")
\* faulty variant: the status is not taken from the message
ToolResultBlockSuccess(id, text, status) == Block("toolResult", text, id, "", <<>>, "success")

ToolResultBlock(id, text, status) == Block("toolResult", text, id, "", <<>>, status)

StrandsMessage(role, content) == [role |-> role, content |-> content]

\* the toolUse blocks of an assistant message; ok is FALSE when json.loads raised
RECURSIVE ConvertToolCalls(_)
ConvertToolCalls(tcs) ==
    IF tcs = <<>> THEN [ok |-> TRUE, blocks |-> <<>>]
    ELSE LET j == JsonLoads(Head(tcs).arguments)
             rest == ConvertToolCalls(Tail(tcs))
         IN  IF j.ok /\ rest.ok
             THEN [ok |-> TRUE,
                   blocks |-> <<ToolUseBlock(Head(tcs).id, Head(tcs).name, j.value)>> \o rest.blocks]
             ELSE [ok |-> FALSE, blocks |-> <<>>]

\* _convert_agui_message_to_strands: the entry, or ok = FALSE when it raised
ConvertAguiMessageToStrands(m) ==
    CASE m.role = "user" ->
            [ok |-> TRUE, msg |-> StrandsMessage("user", <<TextBlock(m.content)>>)]
      [] m.role = "assistant" ->
            LET text == IF m.content # None /\ m.content # ""
                        THEN <<TextBlock(m.content)>> ELSE <<>>
                tcs == ConvertToolCalls(m.tool_calls)
            IN  [ok |-> tcs.ok, msg |-> StrandsMessage("assistant", text \o tcs.blocks)]
      [] m.role = "system" ->
            [ok |-> TRUE, msg |-> StrandsMessage("system", <<TextBlock(m.content)>>)]
      [] m.role = "tool" ->
            [ok |-> TRUE,
             msg |-> StrandsMessage("user",
                        <<ToolResultBlock(m.tool_call_id, m.content,
                                          IF m.error = None \/ m.error = ""
                                          THEN "success" ELSE "error")>>)]

\* run_streaming's loop over input_data.messages
RECURSIVE ConvertMessages(_)
ConvertMessages(ms) ==
    IF ms = <<>> THEN [ok |-> TRUE, msgs |-> <<>>]
    ELSE LET c == ConvertAguiMessageToStrands(Head(ms))
             rest == ConvertMessages(Tail(ms))
         IN  IF c.ok /\ rest.ok
             THEN [ok |-> TRUE, msgs |-> <<c.msg>> \o rest.msgs]
             ELSE [ok |-> FALSE, msgs |-> <<>>]

\* the RunAgentInput payloads callers send (messages and declared tool names)
InputNames == {"plain", "badjson", "toolturn", "orphan", "failed"}

RunInput(n) ==
    CASE n = "plain" ->
            [messages |-> <<UserMessage("hi")>>, tools |-> <<>>]
      [] n = "badjson" ->
            [messages |-> <<UserMessage("hi"),
                            AssistantMessage(None, <<ToolCall("t1", "{oops")>>)>>,
             tools |-> <<"calculator">>]
      [] n = "toolturn" ->
            [messages |-> <<SystemMessage("sys"), UserMessage("hi"),
                            AssistantMessage("ok", <<ToolCall("t1", "{\"expression\": \"2+2\"}")>>),
                            ToolMessage("4", "t1", None)>>,
             tools |-> <<"calculator">>]
      [] n = "orphan" ->
            [messages |-> <<UserMessage("hi"), ToolMessage("4", "t1", None)>>,
             tools |-> <<"calculator">>]
      [] n = "failed" ->
            [messages |-> <<UserMessage("hi"),
                            AssistantMessage(None, <<ToolCall("t1", "{}"), ToolCall("t2", "{}")>>),
                            ToolMessage("boom", "t1", "division by zero"),
                            ToolMessage("ok", "t2", "")>>,
             tools |-> <<"calculator">>]

\* the payload the caller of each run sends: the two runs differ in their
\* messages, and one of them declares a frontend tool
InputOf(p) == IF p = <<"x", "y">> THEN "toolturn" ELSE "plain"

\* the tool_results dicts callers pass to continue_after_tools
ToolResultSets == { <<>>, <<[id |-> "t1", result |-> "4"]>> }

(***************************************************************************)
(* Generator invocations.                                                  *)
(***************************************************************************)
IdleGen ==
    [kind |-> "idle",           \* "run": run_streaming, "cont": continue_after_tools
     pc |-> "idle",             \* where the generator is suspended
     thread_id |-> "", run_id |-> "",
     obj |-> 0,                 \* the ExecutionState object it holds
     input |-> "",              \* run_streaming's input_data
     has_tool_calls |-> FALSE,
     batch |-> <<>>,            \* agui_events not yet yielded
     last |-> "",               \* shape and stop reason of the upstream event in hand
     results |-> <<>>,          \* continue_after_tools' tool_results
     snap |-> 0,                \* the ExecutionState the /continue endpoint read
     ended |-> "",              \* how it ended (history)
     st0 |-> <<>>]              \* the ExecutionState it began to stream from (history)

Out(g) ==
    LET mine == SelectSeq(trace, LAMBDA x : x.g = g)
    IN  [i \in 1..Len(mine) |-> mine[i].ev]

Yield(g, ev) == trace' = Append(trace, [g |-> g, ev |-> ev])

\* invocations made plus upstream events delivered
CallsUsed ==
    LET RECURSIVE Sum(_)
        Sum(n) == IF n = 0 THEN 0
                  ELSE (IF gen[n].kind = "idle" THEN 0 ELSE 1) + Len(pulled[n]) + Sum(n - 1)
    IN  Sum(MaxCalls)

IsToolCallEvent(e) == e.type \in {"TOOL_CALL_START", "TOOL_CALL_ARGS", "TOOL_CALL_END"}

\* result["tool_calls"]: one {id, name} per item of pending_tools
ToolCallsOf(pending) == [i \in 1..Len(pending) |-> [id |-> pending[i].id, name |-> pending[i].name]]

AgentErrorCode == "AGENT_ERROR"
StateErrorCode == "STATE_ERROR"

\* faulty variant: the handler of run_streaming copied with its code
ContinuationCodeCopied == "AGENT_ERROR"

ContinuationErrorCode == "CONTINUATION_ERROR"

\* faulty variant: no handler, the exception leaves the generator
RunExceptionPropagates == <<>>

\* faulty variant: the handler goes on to the final RunFinished
RunExceptionThenFinished ==
    <<RunErrorEvent(AgentErrorCode), RunFinishedEvent("", "completed", <<>>)>>

\* run_streaming's `except Exception`: what the handler yields
RunExceptionEvents == <<RunErrorEvent(AgentErrorCode)>>

\* continue_after_tools' `except Exception`
ContinueExceptionEvents == <<RunErrorEvent(ContinuationErrorCode)>>

\* the handler of an exception raised in generator g
Except(g, events, how) ==
    /\ trace' = trace \o [i \in 1..Len(events) |-> [g |-> g, ev |-> events[i]]]
    /\ gen' = [gen EXCEPT ![g].pc = "done", ![g].ended = how, ![g].batch = <<>>]

(***************************************************************************)
(* run_streaming.                                                          *)
(***************************************************************************)
\* faulty variant: the final status decided without its two tests
WaitsForToolsUntested(has_tool_calls, st) == TRUE

\* the final status: waiting_for_tools, or completed
WaitsForTools(has_tool_calls, st) == has_tool_calls /\ st.pending_tools # <<>>

\* "Determine final status": the last yield
Finish(g, st, has) ==
    /\ heap' = [heap EXCEPT ![gen[g].obj] =
                   IF WaitsForTools(has, st) THEN [st EXCEPT !.waiting_for_tools = TRUE] ELSE st]
    /\ Yield(g, IF WaitsForTools(has, st)
                THEN RunFinishedEvent(gen[g].thread_id, "waiting_for_tools",
                                      ToolCallsOf(st.pending_tools))
                ELSE RunFinishedEvent(gen[g].thread_id, "completed", <<>>))
    /\ gen' = [gen EXCEPT ![g].pc = "done", ![g].ended = "finished",
                          ![g].has_tool_calls = has, ![g].batch = <<>>]

\* has_tool_calls after "if should_pause_for_tools and execution_state.pending_tools"
HasToolCallsAfterLoop(has, should_pause, st) ==
    has \/ (should_pause /\ st.pending_tools # <<>>)

\* from the end of the async-for loop to the next yield
LoopExit(g, st, has, should_pause) ==
    LET has2 == HasToolCallsAfterLoop(has, should_pause, st)
    IN  IF st.current_message_id # None
        THEN /\ Yield(g, TextMessageEndEvent(st.current_message_id))
             /\ heap' = [heap EXCEPT ![gen[g].obj] = st]
             /\ gen' = [gen EXCEPT ![g].pc = "closed", ![g].has_tool_calls = has2,
                                   ![g].batch = <<>>]
        ELSE Finish(g, st, has2)

\* faulty variant: the stop reason compared with the wrong spelling
PauseSignalMisspelt(last) == last = "messageStop:toolUse"

\* messageStop with stopReason tool_use: pause
PauseSignal(last) == last = "messageStop:tool_use"

\* hasattr(strands_event, 'result') and strands_event.result
FinalResult(last) == last = "result:"

LastOf(ev) == ev.shape \o ":" \o (IF ev.shape = "messageStop" THEN ev.text ELSE "")

\* after the for loop over agui_events: the two break tests, then the next pull
AfterEvents(g, st, has, last) ==
    IF PauseSignal(last) THEN LoopExit(g, st, has, TRUE)
    ELSE IF FinalResult(last) THEN LoopExit(g, st, has, FALSE)
    ELSE /\ heap' = [heap EXCEPT ![gen[g].obj] = st]
         /\ gen' = [gen EXCEPT ![g].pc = "pull", ![g].has_tool_calls = has,
                               ![g].batch = <<>>, ![g].last = ""]
         /\ UNCHANGED trace

\* faulty variant: the events kept in the list and the next upstream event pulled
YieldNextBuffered(g, st, has, batch, last) ==
    IF batch # <<>>
    THEN /\ heap' = [heap EXCEPT ![gen[g].obj] = st]
         /\ gen' = [gen EXCEPT ![g].pc = "pull", ![g].has_tool_calls = has,
                               ![g].batch = batch, ![g].last = ""]
         /\ UNCHANGED trace
    ELSE AfterEvents(g, st, has, last)

\* the for loop over agui_events: yield the next one, or go on after the loop
YieldNext(g, st, has, batch, last) ==
    IF batch # <<>>
    THEN /\ Yield(g, Head(batch))
         /\ heap' = [heap EXCEPT ![gen[g].obj] = st]
         /\ gen' = [gen EXCEPT ![g].pc = "yielded",
                               ![g].has_tool_calls = has \/ IsToolCallEvent(Head(batch)),
                               ![g].batch = Tail(batch), ![g].last = last]
    ELSE AfterEvents(g, st, has, last)

\* faulty variant: a state already registered under the key is kept
StartRunKeepsState(g, p, inp) ==
    LET old == execution_states[ExecKey(p[1], p[2])]
        o == IF old = 0 THEN g ELSE old
    IN  /\ gen[g].kind = "idle"
        /\ CallsUsed < MaxCalls
        /\ heap' = IF old = 0 THEN (g :> ExecutionState(p[1], p[2])) @@ heap ELSE heap
        /\ execution_states' = [execution_states EXCEPT ![ExecKey(p[1], p[2])] = o]
        /\ Yield(g, RunStartedEvent(p[1], p[2]))
        /\ gen' = [gen EXCEPT ![g] = [IdleGen EXCEPT !.kind = "run", !.pc = "started",
                                         !.thread_id = p[1], !.run_id = p[2],
                                         !.obj = o, !.input = inp,
                                         !.st0 = heap'[o]]]
        /\ UNCHANGED <<messages, strands_tools, pulled, uuid_next>>

\* a caller starts run_streaming: the state is created and registered, RunStarted yielded
StartRun(g, p, inp) ==
    /\ gen[g].kind = "idle"
    /\ CallsUsed < MaxCalls
    /\ heap' = (g :> ExecutionState(p[1], p[2])) @@ heap
    /\ execution_states' = [execution_states EXCEPT ![ExecKey(p[1], p[2])] = g]
    /\ Yield(g, RunStartedEvent(p[1], p[2]))
    /\ gen' = [gen EXCEPT ![g] = [IdleGen EXCEPT !.kind = "run", !.pc = "started",
                                     !.thread_id = p[1], !.run_id = p[2],
                                     !.obj = g, !.input = inp,
                                     !.st0 = ExecutionState(p[1], p[2])]]
    /\ UNCHANGED <<messages, strands_tools, pulled, uuid_next>>

\* _register_agui_tools_with_strands: with tools declared, self.strands_agent
\* is replaced by a new Agent with these tools and an empty history
RegisterAguiToolsWithStrands(agui_tools, agent) ==
    IF agui_tools = <<>> THEN agent
    ELSE [tools |-> agui_tools, messages |-> <<>>]

\* tools registered, messages converted and set, stream_async called
Prepare(g) ==
    /\ gen[g].kind = "run" /\ gen[g].pc = "started"
    /\ LET agent == RegisterAguiToolsWithStrands(RunInput(gen[g].input).tools,
                                                [tools |-> strands_tools, messages |-> messages])
           c == ConvertMessages(RunInput(gen[g].input).messages)
       IN  /\ strands_tools' = agent.tools
           /\ IF c.ok
              THEN /\ messages' = c.msgs
                   /\ gen' = [gen EXCEPT ![g].pc = "pull"]
                   /\ UNCHANGED trace
              ELSE /\ Except(g, RunExceptionEvents, "error:conversion")
                   /\ messages' = agent.messages
    /\ UNCHANGED <<execution_states, heap, pulled, uuid_next>>

\* stream_async is exhausted
RunExhausted(g) ==
    /\ gen[g].kind = "run" /\ gen[g].pc = "pull"
    /\ LoopExit(g, heap[gen[g].obj], gen[g].has_tool_calls, FALSE)
    /\ UNCHANGED <<execution_states, messages, strands_tools, pulled, uuid_next>>

\* stream_async raises
RunEngineRaises(g) ==
    /\ gen[g].kind = "run" /\ gen[g].pc = "pull"
    /\ Except(g, RunExceptionEvents, "error:engine")
    /\ UNCHANGED <<execution_states, heap, messages, strands_tools, pulled, uuid_next>>

\* stream_async yields ev: translate it, up to the next yield or pull
RunPull(g, ev) ==
    /\ gen[g].kind = "run" /\ gen[g].pc = "pull"
    /\ CallsUsed < MaxCalls
    /\ LET st == heap[gen[g].obj]
           r == ConvertStrandsToAguiEvents(ev, st, Uuid(uuid_next))
       IN  /\ pulled' = [pulled EXCEPT ![g] = Append(@, [ev |-> ev, fresh |-> Uuid(uuid_next)])]
           /\ uuid_next' = IF DrewUuid(st, r) THEN uuid_next + 1 ELSE uuid_next
           /\ IF r.raised
              THEN /\ Except(g, RunExceptionEvents, "error:translator")
                   /\ heap' = [heap EXCEPT ![gen[g].obj] = r.state]
              ELSE YieldNext(g, r.state, gen[g].has_tool_calls, r.events, LastOf(ev))
    /\ UNCHANGED <<execution_states, messages, strands_tools>>

\* resumed after the yield of an event of the batch
RunDeliver(g) ==
    /\ gen[g].kind = "run" /\ gen[g].pc = "yielded"
    /\ YieldNext(g, heap[gen[g].obj], gen[g].has_tool_calls, gen[g].batch, gen[g].last)
    /\ UNCHANGED <<execution_states, messages, strands_tools, pulled, uuid_next>>

\* resumed after the yield of TextMessageEnd
RunClose(g) ==
    /\ gen[g].kind = "run" /\ gen[g].pc = "closed"
    /\ Finish(g, heap[gen[g].obj], gen[g].has_tool_calls)
    /\ UNCHANGED <<execution_states, messages, strands_tools, pulled, uuid_next>>

(***************************************************************************)
(* continue_after_tools.                                                   *)
(***************************************************************************)
\* faulty variant: the missing state reported by the generic handler
StateNotFoundAsContinuation == <<RunErrorEvent(ContinuationErrorCode)>>

\* the events of a call that finds no ExecutionState under its key
StateNotFoundEvents == <<RunErrorEvent(StateErrorCode)>>

\* faulty variant: a turn for the first item of tool_results only
ToolResultMessagesFirstOnly(results) ==
    IF results = <<>> THEN <<>>
    ELSE <<StrandsMessage("user", <<ToolResultBlock(results[1].id, results[1].result, "success")>>)>>

\* one tool-result message per item of tool_results
ToolResultMessages(results) ==
    [i \in 1..Len(results) |->
        StrandsMessage("user", <<ToolResultBlock(results[i].id, results[i].result, "success")>>)]

\* faulty variant: the final status decided as run_streaming decides it
ContinueStatusLikeRun(st) ==
    IF st.pending_tools # <<>> THEN "waiting_for_tools" ELSE "completed"

\* the status continue_after_tools finishes with
ContinueFinalStatus(st) == "completed"

\* "Close message and finish": the last yield
ContFinish(g, st) ==
    /\ Yield(g, RunFinishedEvent(gen[g].thread_id, ContinueFinalStatus(st), <<>>))
    /\ gen' = [gen EXCEPT ![g].pc = "done", ![g].ended = "finished", ![g].batch = <<>>]
    /\ heap' = [heap EXCEPT ![gen[g].obj] = st]

\* from the end of the async-for loop to the next yield
ContLoopExit(g, st) ==
    IF st.current_message_id # None
    THEN /\ Yield(g, TextMessageEndEvent(st.current_message_id))
         /\ heap' = [heap EXCEPT ![gen[g].obj] = st]
         /\ gen' = [gen EXCEPT ![g].pc = "closed", ![g].batch = <<>>]
    ELSE ContFinish(g, st)

\* the for loop over agui_events: yield the next one, or pull again
ContYieldNext(g, st, batch) ==
    IF batch # <<>>
    THEN /\ Yield(g, Head(batch))
         /\ heap' = [heap EXCEPT ![gen[g].obj] = st]
         /\ gen' = [gen EXCEPT ![g].pc = "yielded", ![g].batch = Tail(batch)]
    ELSE /\ heap' = [heap EXCEPT ![gen[g].obj] = st]
         /\ gen' = [gen EXCEPT ![g].pc = "pull", ![g].batch = <<>>]
         /\ UNCHANGED trace

\* continue_after_tools from its first line up to its first yield
ContinueAfterToolsBody(g, p, results) ==
    /\ LET o == execution_states[ExecKey(p[1], p[2])]
           started == [IdleGen EXCEPT !.kind = "cont", !.thread_id = p[1], !.run_id = p[2],
                                      !.obj = o, !.results = results, !.snap = gen[g].snap]
       IN  IF o = 0
           THEN /\ trace' = trace \o [i \in 1..Len(StateNotFoundEvents) |->
                                         [g |-> g, ev |-> StateNotFoundEvents[i]]]
                /\ gen' = [gen EXCEPT ![g] = [started EXCEPT !.pc = "done",
                                                            !.ended = "error:state"]]
                /\ UNCHANGED <<heap, messages, uuid_next>>
           ELSE /\ heap' = [heap EXCEPT ![o].tool_results = DictUpdate(@, results),
                                        ![o].current_message_id = Uuid(uuid_next)]
                /\ messages' = messages \o ToolResultMessages(results)
                /\ uuid_next' = uuid_next + 1
                /\ Yield(g, TextMessageStartEvent(Uuid(uuid_next)))
                /\ gen' = [gen EXCEPT ![g] = [started EXCEPT !.pc = "pull", !.st0 = heap'[o]]]
    /\ UNCHANGED <<execution_states, strands_tools, pulled>>

\* a caller starts continue_after_tools
ContinueAfterTools(g, p, results) ==
    /\ gen[g].kind = "idle"
    /\ CallsUsed < MaxCalls
    /\ ContinueAfterToolsBody(g, p, results)

\* stream_async is exhausted
ContExhausted(g) ==
    /\ gen[g].kind = "cont" /\ gen[g].pc = "pull"
    /\ ContLoopExit(g, heap[gen[g].obj])
    /\ UNCHANGED <<execution_states, messages, strands_tools, pulled, uuid_next>>

\* stream_async raises
ContEngineRaises(g) ==
    /\ gen[g].kind = "cont" /\ gen[g].pc = "pull"
    /\ Except(g, ContinueExceptionEvents, "error:engine")
    /\ UNCHANGED <<execution_states, heap, messages, strands_tools, pulled, uuid_next>>

\* stream_async yields ev: translate it, up to the next yield or pull
ContPull(g, ev) ==
    /\ gen[g].kind = "cont" /\ gen[g].pc = "pull"
    /\ CallsUsed < MaxCalls
    /\ LET st == heap[gen[g].obj]
           r == ConvertStrandsToAguiEvents(ev, st, Uuid(uuid_next))
       IN  /\ pulled' = [pulled EXCEPT ![g] = Append(@, [ev |-> ev, fresh |-> Uuid(uuid_next)])]
           /\ uuid_next' = IF DrewUuid(st, r) THEN uuid_next + 1 ELSE uuid_next
           /\ IF r.raised
              THEN /\ Except(g, ContinueExceptionEvents, "error:translator")
                   /\ heap' = [heap EXCEPT ![gen[g].obj] = r.state]
              ELSE ContYieldNext(g, r.state, r.events)
    /\ UNCHANGED <<execution_states, messages, strands_tools>>

\* resumed after the yield of an event of the batch
ContDeliver(g) ==
    /\ gen[g].kind = "cont" /\ gen[g].pc = "yielded"
    /\ ContYieldNext(g, heap[gen[g].obj], gen[g].batch)
    /\ UNCHANGED <<execution_states, messages, strands_tools, pulled, uuid_next>>

\* resumed after the yield of TextMessageEnd
ContClose(g) ==
    /\ gen[g].kind = "cont" /\ gen[g].pc = "closed"
    /\ ContFinish(g, heap[gen[g].obj])
    /\ UNCHANGED <<execution_states, messages, strands_tools, pulled, uuid_next>>

(***************************************************************************)
(* Cancellation.                                                           *)
(***************************************************************************)
\* faulty variant: the handlers written as `except BaseException`
CancelHandled(g) ==
    /\ gen[g].kind \in {"run", "cont"}
    /\ gen[g].pc \in {"started", "yielded", "closed"}
    /\ trace' = trace \o <<[g |-> g, ev |-> IF gen[g].kind = "run"
                                            THEN RunExceptionEvents[1]
                                            ELSE ContinueExceptionEvents[1]]>>
    /\ gen' = [gen EXCEPT ![g].pc = "cancelled", ![g].ended = "cancelled", ![g].batch = <<>>]
    /\ UNCHANGED <<execution_states, heap, messages, strands_tools, pulled, uuid_next>>

\* the consumer closes the generator while it is suspended at a yield:
\* GeneratorExit (or CancelledError) is raised at the yield; neither is an
\* Exception, so no handler runs and the generator ends
Cancel(g) ==
    /\ gen[g].kind \in {"run", "cont"}
    /\ gen[g].pc \in {"started", "yielded", "closed"}
    /\ gen' = [gen EXCEPT ![g].pc = "cancelled", ![g].ended = "cancelled", ![g].batch = <<>>]
    /\ UNCHANGED <<execution_states, heap, messages, strands_tools, pulled, trace, uuid_next>>

(***************************************************************************)
(* The specification: callers consume one generator to its end before the  *)
(* next one is started.                                                    *)
(***************************************************************************)
Init ==
    /\ execution_states = [k \in Keys |-> 0]
    /\ heap = <<>>
    /\ messages = <<>>
    /\ strands_tools = <<>>
    /\ gen = [g \in Gens |-> IdleGen]
    /\ pulled = [g \in Gens |-> <<>>]
    /\ trace = <<>>
    /\ uuid_next = 1

\* generator g is the next to start: those before it are fully consumed
NextToStart(g) == \A h \in Gens : h < g => gen[h].pc \in {"done", "cancelled"}

Next ==
    \E g \in Gens :
        \/ \E p \in DistinctPairs : NextToStart(g) /\ StartRun(g, p, InputOf(p))
        \/ \E p \in DistinctPairs : NextToStart(g) /\ ContinueAfterTools(g, p, <<[id |-> "t1", result |-> "4"]>>)
        \/ Prepare(g)
        \/ \E ev \in CoreEvents : RunPull(g, ev)
        \/ RunExhausted(g)
        \/ RunEngineRaises(g)
        \/ RunDeliver(g)
        \/ RunClose(g)
        \/ \E ev \in CoreEvents : ContPull(g, ev)
        \/ ContExhausted(g)
        \/ ContEngineRaises(g)
        \/ ContDeliver(g)
        \/ ContClose(g)

Spec == Init /\ [][Next]_vars

\* the same callers, who may also close a generator instead of consuming it
NextCancel == Next \/ \E g \in Gens : Cancel(g)

SpecCancel == Init /\ [][NextCancel]_vars

(***************************************************************************)
(* One key: a run and its resumes, with different tool results.            *)
(***************************************************************************)
\* the tool_results dicts of the resumes: the second overrides t1 and adds t2
ResumeResults ==
    { <<[id |-> "t1", result |-> "4"]>>,
      <<[id |-> "t1", result |-> "5"], [id |-> "t2", result |-> "ok"]>> }

ResumeEvents ==
    { StrandsEvent("messageStart", "", "", <<>>, <<>>),
      StrandsEvent("contentBlockStart", "", "t1", EmptyInput, <<>>) }

NextResume ==
    \E g \in Gens :
        \/ NextToStart(g) /\ StartRun(g, <<"x", "y">>, "toolturn")
        \/ \E R \in ResumeResults : NextToStart(g) /\ ContinueAfterTools(g, <<"x", "y">>, R)
        \/ Prepare(g)
        \/ \E ev \in ResumeEvents : RunPull(g, ev)
        \/ RunExhausted(g)
        \/ RunEngineRaises(g)
        \/ RunDeliver(g)
        \/ RunClose(g)
        \/ \E ev \in ResumeEvents : ContPull(g, ev)
        \/ ContExhausted(g)
        \/ ContEngineRaises(g)
        \/ ContDeliver(g)
        \/ ContClose(g)

SpecResume == Init /\ [][NextResume]_vars

(***************************************************************************)
(* A single run_streaming invocation, over all the upstream events.        *)
(***************************************************************************)
NextRun ==
    \/ \E inp \in {"plain", "badjson"} : StartRun(1, <<"x", "y">>, inp)
    \/ Prepare(1)
    \/ \E ev \in StrandsEvents : RunPull(1, ev)
    \/ RunExhausted(1)
    \/ RunEngineRaises(1)
    \/ RunDeliver(1)
    \/ RunClose(1)

SpecRun == Init /\ [][NextRun]_vars

(***************************************************************************)
(* A single run_streaming invocation, over all the inbound message lists.  *)
(***************************************************************************)
NextConvert ==
    \/ \E inp \in InputNames : StartRun(1, <<"x", "y">>, inp)
    \/ Prepare(1)
    \/ \E ev \in ResumeEvents : RunPull(1, ev)
    \/ RunExhausted(1)
    \/ RunEngineRaises(1)
    \/ RunDeliver(1)
    \/ RunClose(1)

SpecConvert == Init /\ [][NextConvert]_vars

(***************************************************************************)
(* The server (server.py): POST /stream streams run_streaming, POST        *)
(* /continue checks the run's state and then streams continue_after_tools. *)
(* The requests are served on one event loop: their generators interleave  *)
(* at the suspension points.                                               *)
(***************************************************************************)
\* get_execution_state: the ExecutionState under the key (0: None); the dict it
\* returns copies waiting_for_tools and refers to the object's pending_tools
GetExecutionState(thread_id, run_id) == execution_states[ExecKey(thread_id, run_id)]

\* tool_data.get("input", {}).get("expression", "0")
ExpressionOf(input) ==
    IF \E i \in 1..Len(input) : input[i][1] = "expression"
    THEN input[CHOOSE i \in 1..Len(input) : input[i][1] = "expression"][2]
    ELSE "0"

\* str(eval(expression)) on the expressions that occur
EvalStr(expression) == IF expression = "2+2" THEN "4" ELSE expression

\* simulated_tool_results: one result per item of the pending_tools read
SimulatedToolResults(pending) ==
    [i \in 1..Len(pending) |->
        [id |-> pending[i].id,
         result |-> IF pending[i].name = "calculator"
                    THEN "The result is: " \o EvalStr(ExpressionOf(pending[i].input))
                    ELSE "Tool " \o pending[i].name \o " executed successfully"]]

\* POST /continue: the two checks of continue_execution, which raises 404 or
\* 400, or returns the StreamingResponse whose generator has not started
ContinueExecution(g, p) ==
    /\ gen[g].kind = "idle"
    /\ CallsUsed < MaxCalls
    /\ LET o == GetExecutionState(p[1], p[2])
           request == [IdleGen EXCEPT !.kind = "request", !.thread_id = p[1], !.run_id = p[2],
                                      !.snap = o]
       IN  gen' = [gen EXCEPT ![g] =
                      IF o = 0
                      THEN [request EXCEPT !.pc = "done", !.ended = "rejected:404"]
                      ELSE IF ~heap[o].waiting_for_tools
                      THEN [request EXCEPT !.pc = "done", !.ended = "rejected:400"]
                      ELSE [request EXCEPT !.pc = "accepted"]]
    /\ UNCHANGED <<execution_states, heap, messages, strands_tools, pulled, trace, uuid_next>>

\* the response starts to stream: continuation_generator computes the results
\* from the pending_tools it read and calls continue_after_tools
ContinuationGenerator(g) ==
    /\ gen[g].kind = "request" /\ gen[g].pc = "accepted"
    /\ ContinueAfterToolsBody(g, <<gen[g].thread_id, gen[g].run_id>>,
                              SimulatedToolResults(heap[gen[g].snap].pending_tools))

\* the upstream events of the requests
ServerEvents ==
    { StrandsEvent("messageStart", "", "", <<>>, <<>>),
      StrandsEvent("contentBlockStart", "", "t1", EmptyInput, <<>>),
      StrandsEvent("messageStop", "tool_use", "", <<>>, <<>>) }

\* requests are numbered as they arrive
Arrives(g) == \A h \in Gens : h < g => gen[h].kind # "idle"

NextServer ==
    \E g \in Gens :
        \/ Arrives(g) /\ StartRun(g, <<"x", "y">>, "toolturn")
        \/ Arrives(g) /\ ContinueExecution(g, <<"x", "y">>)
        \/ ContinuationGenerator(g)
        \/ Prepare(g)
        \/ \E ev \in ServerEvents : RunPull(g, ev)
        \/ RunExhausted(g)
        \/ RunEngineRaises(g)
        \/ RunDeliver(g)
        \/ RunClose(g)
        \/ \E ev \in ServerEvents : ContPull(g, ev)
        \/ ContExhausted(g)
        \/ ContEngineRaises(g)
        \/ ContDeliver(g)
        \/ ContClose(g)

SpecServer == Init /\ [][NextServer]_vars

(***************************************************************************)
(* Runs of two different (thread_id, run_id) pairs and resumes of the first *)
(* pair, interleaved two at a time: each caller consumes its generator at  *)
(* its own pace on the one event loop.                                     *)
(***************************************************************************)
\* the generators that were started and are not yet fully consumed
Active == {h \in Gens : gen[h].kind # "idle" /\ gen[h].pc \notin {"done", "cancelled"}}

\* a call arrives while at most one other generator is being consumed
ArrivesBeside(g) == Arrives(g) /\ Cardinality(Active) <= 1

\* the pairs of the interleaved runs
InterleavedPairs == {<<"a", "b:c">>, <<"a:b", "c">>}

\* the upstream events of the interleaved runs
PairEvents ==
    { StrandsEvent("messageStart", "", "", <<>>, <<>>),
      StrandsEvent("contentBlockStart", "", "t1", EmptyInput, <<>>) }

NextPairs ==
    \E g \in Gens :
        \/ \E p \in InterleavedPairs : ArrivesBeside(g) /\ StartRun(g, p, "plain")
        \/ ArrivesBeside(g) /\ ContinueAfterTools(g, <<"a", "b:c">>, <<[id |-> "t1", result |-> "4"]>>)
        \/ Prepare(g)
        \/ \E ev \in PairEvents : RunPull(g, ev)
        \/ RunExhausted(g)
        \/ RunEngineRaises(g)
        \/ RunDeliver(g)
        \/ RunClose(g)
        \/ \E ev \in PairEvents : ContPull(g, ev)
        \/ ContExhausted(g)
        \/ ContEngineRaises(g)
        \/ ContDeliver(g)
        \/ ContClose(g)

SpecPairs == Init /\ [][NextPairs]_vars

(***************************************************************************)
(* Streams.                                                                *)
(***************************************************************************)
\* the downstream events of ExecutionState object o: those of run_streaming
\* and of every continue_after_tools that found it
StreamOf(o) ==
    LET mine == SelectSeq(trace, LAMBDA x : gen[x.g].obj = o)
    IN  [i \in 1..Len(mine) |-> mine[i].ev]

CountOf(s, types) == Cardinality({i \in 1..Len(s) : s[i].type \in types})

CountFor(s, type, id) == Cardinality({i \in 1..Len(s) : s[i].type = type /\ s[i].id = id})

TerminalTypes == {"RUN_FINISHED", "RUN_ERROR"}

Last(s) == s[Len(s)]

\* the text message open after the first i events of s (None: no message is open)
RECURSIVE OpenMessage(_, _)
OpenMessage(s, i) ==
    IF i = 0 THEN None
    ELSE IF s[i].type = "TEXT_MESSAGE_START" THEN s[i].id
    ELSE IF s[i].type = "TEXT_MESSAGE_END" THEN None
    ELSE OpenMessage(s, i - 1)

\* the translation of a log of upstream events, from ExecutionState st
RECURSIVE Replay(_, _)
Replay(log, st) ==
    IF log = <<>> THEN [events |-> <<>>, state |-> st]
    ELSE LET r == ConvertStrandsToAguiEvents(Head(log).ev, st, Head(log).fresh)
             rest == Replay(Tail(log), r.state)
         IN  [events |-> r.events \o rest.events, state |-> rest.state]

Front(s) == SubSeq(s, 1, Len(s) - 1)

(***************************************************************************)
(* Claims.                                                                 *)
(***************************************************************************)
\* C1: the stream of every run_streaming invocation starts with its only
\* RunStarted; it holds no terminal event while the generator is not finished,
\* and once it is fully consumed it holds exactly one terminal event
\* (RunFinished or RunError), as its last event, whatever the engine yields
\* and whether the conversion, the engine or the translator raised.
C1_RunBrackets ==
    \A g \in Gens :
        gen[g].kind = "run" =>
            LET out == Out(g)
            IN  /\ Len(out) >= 1
                /\ out[1].type = "RUN_STARTED"
                /\ CountOf(out, {"RUN_STARTED"}) = 1
                /\ gen[g].pc # "done" => CountOf(out, TerminalTypes) = 0
                /\ gen[g].pc = "done" =>
                      /\ CountOf(out, TerminalTypes) = 1
                      /\ Last(out).type \in TerminalTypes

\* a run that translated events and then ended with RunError, fully consumed
C1_Witness ==
    \E g \in Gens :
        /\ gen[g].kind = "run" /\ gen[g].pc = "done"
        /\ gen[g].ended = "error:engine"
        /\ Len(Out(g)) > 3

\* C2: in the stream of a Run State (run_streaming followed by the
\* continue_after_tools calls on its key) every TextMessageContent and
\* TextMessageEnd carries the id of the message that is open, and
\* TextMessageStart comes only while no message is open.
C2_TextBrackets ==
    \A o \in DOMAIN heap :
        LET s == StreamOf(o)
        IN  \A i \in 1..Len(s) :
                /\ s[i].type \in {"TEXT_MESSAGE_CONTENT", "TEXT_MESSAGE_END"}
                      => OpenMessage(s, i - 1) = s[i].id
                /\ s[i].type = "TEXT_MESSAGE_START" => OpenMessage(s, i - 1) = None

\* the first position of an event of this type and id in s (0: none)
FirstOf(s, type, id) ==
    IF CountFor(s, type, id) = 0 THEN 0
    ELSE CHOOSE i \in 1..Len(s) :
            /\ s[i].type = type /\ s[i].id = id
            /\ \A j \in 1..(i - 1) : ~(s[j].type = type /\ s[j].id = id)

ToolCallTypes == {"TOOL_CALL_START", "TOOL_CALL_ARGS", "TOOL_CALL_END"}

\* the tool_call_ids that appear in s
ToolIdsIn(s) == {s[i].id : i \in {j \in 1..Len(s) : s[j].type \in ToolCallTypes}}

\* the run ended with RunFinished and did not pause
Completed(g) == gen[g].pc = "done" /\ gen[g].ended = "finished"
                /\ Last(Out(g)).val = "completed"

\* C3: for every tool_call_id in the stream of a run there is exactly one
\* ToolCallStart, at most one ToolCallArgs and at most one ToolCallEnd, in the
\* order Start, Args, End, and exactly one ToolCallEnd once the run has
\* finished without pausing.
C3_ToolCallLifecycle ==
    \A g \in Gens :
        gen[g].kind = "run" =>
            LET out == Out(g)
            IN  \A id \in ToolIdsIn(out) :
                    /\ CountFor(out, "TOOL_CALL_START", id) = 1
                    /\ CountFor(out, "TOOL_CALL_ARGS", id) <= 1
                    /\ CountFor(out, "TOOL_CALL_END", id) <= 1
                    /\ Completed(g) => CountFor(out, "TOOL_CALL_END", id) = 1
                    /\ CountFor(out, "TOOL_CALL_ARGS", id) = 1 =>
                          FirstOf(out, "TOOL_CALL_START", id) < FirstOf(out, "TOOL_CALL_ARGS", id)
                    /\ CountFor(out, "TOOL_CALL_END", id) = 1 =>
                          /\ FirstOf(out, "TOOL_CALL_START", id) < FirstOf(out, "TOOL_CALL_END", id)
                          /\ FirstOf(out, "TOOL_CALL_ARGS", id) < FirstOf(out, "TOOL_CALL_END", id)

\* the tool_call_ids that have an entry in pending_tools
Registered(g) == DictKeys(heap[gen[g].obj].pending_tools)

\* C4: a step of the translator emits no ToolCallStart for a tool_call_id that
\* has an entry in pending_tools before the step, and a tool-use-start for a
\* registered id emits nothing and leaves pending_tools as it was.
C4_NoReannounce ==
    [][\A g \in Gens :
          (gen[g].kind = "run" /\ gen[g].pc = "pull" /\ Len(pulled'[g]) = Len(pulled[g]) + 1) =>
              LET ev == Last(pulled'[g]).ev
                  new == IF Len(trace') > Len(trace) THEN <<Last(trace').ev>> ELSE <<>>
                  emitted == new \o gen'[g].batch
              IN  /\ \A i \in 1..Len(emitted) :
                        emitted[i].type = "TOOL_CALL_START" => emitted[i].id \notin Registered(g)
                  /\ (ev.shape = "contentBlockStart" /\ ev.id \in Registered(g)) =>
                        /\ emitted = <<>>
                        /\ heap'[gen[g].obj].pending_tools = heap[gen[g].obj].pending_tools
      ]_vars

\* the upstream log of g holds the pause signal at position i: a stop reason of
\* tool_use, seen while pending_tools is non-empty
PauseSignalledAt(g, i) ==
    /\ LastOf(pulled[g][i].ev) = "messageStop:tool_use"
    /\ Replay(SubSeq(pulled[g], 1, i), gen[g].st0).state.pending_tools # <<>>

\* the ids of the text messages started in s
StartedIn(s) == {s[i].id : i \in {j \in 1..Len(s) : s[j].type = "TEXT_MESSAGE_START"}}

\* C5: when run_streaming has seen a stop reason of tool_use with pending_tools
\* non-empty, that event is the last one it pulls; it does not go back to
\* pulling, and its stream ends with TextMessageEnd for the open message (if a
\* message is open) followed by RunFinished with status waiting_for_tools and
\* one {id, name} per entry of pending_tools; waiting_for_tools is then true.
C5_PauseForTools ==
    \A g \in Gens :
        \A i \in 1..Len(pulled[g]) :
            (gen[g].kind = "run" /\ PauseSignalledAt(g, i)) =>
                LET out == Out(g)
                    st == heap[gen[g].obj]
                    open == StartedIn(out)
                IN  /\ i = Len(pulled[g])
                    /\ gen[g].pc \in {"closed", "done"}
                    /\ gen[g].pc = "closed" =>
                          /\ open # {} /\ Last(out) = TextMessageEndEvent(st.current_message_id)
                          /\ st.current_message_id \in open
                    /\ gen[g].pc = "done" =>
                          /\ st.waiting_for_tools
                          /\ Last(out).type = "RUN_FINISHED"
                          /\ Last(out).val = "waiting_for_tools"
                          /\ Len(Last(out).tool_calls) = Len(st.pending_tools)
                          /\ \A k \in 1..Len(st.pending_tools) :
                                Last(out).tool_calls[k] =
                                    [id |-> st.pending_tools[k].id, name |-> st.pending_tools[k].name]
                          /\ Cardinality(DictKeys(st.pending_tools)) = Len(st.pending_tools)
                          /\ open # {} => Front(out)[Len(out) - 1].type = "TEXT_MESSAGE_END"
                          /\ CountOf(out, {"TEXT_MESSAGE_END"}) = Cardinality(open)

\* a run paused by the signal, with a pending tool and its text message closed
C5_Witness ==
    \E g \in Gens :
        /\ gen[g].kind = "run" /\ gen[g].pc = "done"
        /\ Len(pulled[g]) > 0 /\ PauseSignalledAt(g, Len(pulled[g]))
        /\ CountOf(Out(g), {"TEXT_MESSAGE_END"}) = 1
        /\ Len(heap[gen[g].obj].pending_tools) = 1

\* the loop of g ended because stream_async was exhausted
Exhausted(g) ==
    /\ gen[g].ended = "finished"
    /\ (pulled[g] # <<>> => LastOf(Last(pulled[g]).ev) \notin {"messageStop:tool_use", "result:"})

\* C6: a run whose upstream stream was exhausted without the pause signal ends
\* with RunFinished of status completed, after TextMessageEnd for the open
\* message if there is one, and leaves waiting_for_tools false.
C6_CompletedOnExhaustion ==
    \A g \in Gens :
        (gen[g].kind = "run" /\ gen[g].pc = "done" /\ Exhausted(g)
            /\ \A i \in 1..Len(pulled[g]) : ~PauseSignalledAt(g, i)) =>
            LET out == Out(g)
            IN  /\ Last(out).type = "RUN_FINISHED"
                /\ Last(out).val = "completed"
                /\ ~heap[gen[g].obj].waiting_for_tools
                /\ StartedIn(out) # {} => Front(out)[Len(out) - 1].type = "TEXT_MESSAGE_END"

\* the part of the upstream log whose translation was completed
TranslatedLog(g) ==
    IF gen[g].ended = "error:translator" THEN Front(pulled[g]) ELSE pulled[g]

\* C7: when the engine or the translator raises at the k-th upstream event,
\* the generator ends without raising and its stream is RunStarted, the events
\* translated from the first k-1 upstream events, and one RunError.
C7_ErrorStream ==
    \A g \in Gens :
        (gen[g].kind = "run" /\ gen[g].ended \in {"error:engine", "error:translator"}) =>
            /\ gen[g].pc = "done"
            /\ Out(g) = <<RunStartedEvent(gen[g].thread_id, gen[g].run_id)>>
                        \o Replay(TranslatedLog(g), gen[g].st0).events
                        \o <<RunErrorEvent("AGENT_ERROR")>>

\* the translator raised at the third upstream event, after events were translated
C7_Witness ==
    \E g \in Gens :
        /\ gen[g].kind = "run" /\ gen[g].ended = "error:translator"
        /\ Len(pulled[g]) = 3
        /\ Len(Out(g)) >= 4

\* C8: continue_after_tools for a key with no ExecutionState in the store
\* yields RunError with code STATE_ERROR and nothing else; the step changes
\* neither the store, nor any ExecutionState, nor the engine's history, and
\* the engine is never pulled.
C8_UnknownRun ==
    /\ [](\A g \in Gens :
            gen[g].ended = "error:state" =>
                /\ Out(g) = <<RunErrorEvent("STATE_ERROR")>>
                /\ gen[g].pc = "done"
                /\ pulled[g] = <<>>)
    /\ [][\A g \in Gens :
            (/\ gen[g].kind = "idle" /\ gen'[g].kind = "cont"
             /\ execution_states[ExecKey(gen'[g].thread_id, gen'[g].run_id)] = 0) =>
                /\ gen'[g].ended = "error:state"
                /\ Len(trace') = Len(trace) + 1
                /\ UNCHANGED <<execution_states, heap, messages, strands_tools, pulled, uuid_next>>
       ]_vars

\* continue_after_tools found no state for its key while another run is registered
C8_Witness ==
    \E g \in Gens :
        /\ gen[g].ended = "error:state"
        /\ \E h \in Gens : h < g /\ gen[h].kind = "run" /\ gen[h].pc = "done"
        /\ Len(messages) > 0

\* C9: a continue_after_tools call whose engine stream is exhausted without an
\* exception yields TextMessageStart with a message_id no earlier event
\* carries, the events translated from its upstream events, TextMessageEnd for
\* that message, and RunFinished with status completed; no call ends with
\* status waiting_for_tools.
C9_ResumeStream ==
    \A g \in Gens :
        gen[g].kind = "cont" =>
            LET out == Out(g)
                m == gen[g].st0.current_message_id
            IN  /\ gen[g].ended = "finished" =>
                      /\ out = <<TextMessageStartEvent(m)>>
                               \o Replay(pulled[g], gen[g].st0).events
                               \o <<TextMessageEndEvent(m),
                                    RunFinishedEvent(gen[g].thread_id, "completed", <<>>)>>
                      /\ \A i \in 1..Len(trace) : trace[i].g # g => trace[i].ev.id # m
                /\ gen[g].pc = "done" => Last(out).val # "waiting_for_tools"

\* a call that resumed a paused run, translated upstream events and finished
C9_Witness ==
    \E g \in Gens :
        /\ gen[g].kind = "cont" /\ gen[g].ended = "finished"
        /\ gen[g].st0.waiting_for_tools
        /\ Len(pulled[g]) >= 1
        /\ Len(Out(g)) >= 4

\* C10: a continue_after_tools call on a registered run during which the
\* engine or the translator raises ends without raising; its stream ends with
\* its only RunError, of code CONTINUATION_ERROR, and holds no RunFinished.
C10_ContinuationError ==
    \A g \in Gens :
        (gen[g].kind = "cont" /\ gen[g].ended \in {"error:engine", "error:translator"}) =>
            LET out == Out(g)
            IN  /\ gen[g].pc = "done"
                /\ Last(out) = RunErrorEvent("CONTINUATION_ERROR")
                /\ CountOf(out, {"RUN_ERROR"}) = 1
                /\ CountOf(out, {"RUN_FINISHED"}) = 0
                /\ Front(out) = <<TextMessageStartEvent(gen[g].st0.current_message_id)>>
                                \o Replay(TranslatedLog(g), gen[g].st0).events

\* the translator raised in a call that had already translated an event
C10_Witness ==
    \E g \in Gens :
        /\ gen[g].kind = "cont" /\ gen[g].ended = "error:translator"
        /\ Len(pulled[g]) = 2
        /\ Len(Out(g)) >= 3

\* C11: in every ExecutionState, whatever run_streaming, the translator and
\* continue_after_tools have done to it, waiting_for_tools is true only if
\* pending_tools is not empty.
C11_WaitingHasPending ==
    \A o \in DOMAIN heap :
        heap[o].waiting_for_tools => heap[o].pending_tools # <<>>

\* a paused run that was resumed, and whose resume translated an upstream event
C11_Witness ==
    \E g \in Gens :
        /\ gen[g].kind = "cont" /\ gen[g].pc = "done" /\ Len(pulled[g]) >= 1
        /\ heap[gen[g].obj].waiting_for_tools

\* the events a generator still holds in agui_events
Unyielded(g) == gen[g].batch

\* C12: no TextMessageContent whose delta is the empty string is yielded, or
\* returned by the translator, also when the engine delivers content deltas
\* whose text is empty.
C12_NoEmptyDelta ==
    /\ \A i \in 1..Len(trace) :
          trace[i].ev.type = "TEXT_MESSAGE_CONTENT" => trace[i].ev.val # ""
    /\ \A g \in Gens : \A i \in 1..Len(Unyielded(g)) :
          Unyielded(g)[i].type = "TEXT_MESSAGE_CONTENT" => Unyielded(g)[i].val # ""

\* the engine delivered a content delta with empty text, after one with text
C12_Witness ==
    \E g \in Gens :
        /\ Len(pulled[g]) = 2
        /\ pulled[g][1].ev = StrandsEvent("contentBlockDelta", "Hi", "", <<>>, <<>>)
        /\ pulled[g][2].ev = StrandsEvent("contentBlockDelta", "", "", <<>>, <<>>)
        /\ CountOf(Out(g), {"TEXT_MESSAGE_CONTENT"}) = 1
        /\ gen[g].pc = "done"

\* the events a translator step of g hands to the loop: the one yielded in the
\* step and those still to be yielded
EmittedBy(g) ==
    (IF Len(trace') > Len(trace) THEN <<Last(trace').ev>> ELSE <<>>) \o gen'[g].batch

\* the tool_call_ids of the toolUse items of a content list
ToolUseIds(items) == {items[i].id : i \in {j \in 1..Len(items) : items[j].kind = "toolUse"}}

\* C13: a translator step on a complete-message snapshot that was already fed
\* to the translator in this run, so that its tool_call_ids have entries in
\* pending_tools, emits no ToolCallStart and leaves pending_tools as it was.
C13_SnapshotTwice ==
    [][\A g \in Gens :
          (/\ gen[g].kind = "run" /\ gen[g].pc = "pull"
           /\ Len(pulled'[g]) = Len(pulled[g]) + 1
           /\ Last(pulled'[g]).ev.shape = "message"
           /\ \E i \in 1..Len(pulled[g]) : pulled[g][i].ev = Last(pulled'[g]).ev) =>
              /\ ToolUseIds(Last(pulled'[g]).ev.items) \subseteq Registered(g)
              /\ \A i \in 1..Len(EmittedBy(g)) : EmittedBy(g)[i].type # "TOOL_CALL_START"
              /\ heap'[gen[g].obj].pending_tools = heap[gen[g].obj].pending_tools
      ]_vars

\* the snapshot with two toolUse items was translated twice, and its events yielded
C13_Witness ==
    \E g \in Gens :
        /\ gen[g].kind = "run" /\ gen[g].pc = "pull"
        /\ Len(pulled[g]) = 2 /\ pulled[g][1].ev = pulled[g][2].ev
        /\ pulled[g][1].ev.shape = "message"
        /\ Len(pulled[g][1].ev.items) = 3
        /\ CountOf(Out(g), {"TOOL_CALL_END"}) = 4
        /\ Len(heap[gen[g].obj].pending_tools) = 2

\* a content delta with a non-empty text
IsTextDelta(ev) == ev.shape = "contentBlockDelta" /\ ev.text \notin {None, ""}

\* the log is an optional message-start followed by content deltas with text
IsTextSequence(log) ==
    /\ log # <<>>
    /\ \A i \in 1..Len(log) : (i = 1 /\ log[i].ev.shape = "messageStart") \/ IsTextDelta(log[i].ev)

\* the ExecutionState before the j-th upstream event of g is translated
StateBefore(g, j) == Replay(SubSeq(pulled[g], 1, j - 1), gen[g].st0).state

\* TextMessageContent(X, d) for every content delta of the log, in its order
ContentsOf(log, X) ==
    LET deltas == SelectSeq(log, LAMBDA x : IsTextDelta(x.ev))
    IN  [i \in 1..Len(deltas) |-> TextMessageContentEvent(X, deltas[i].ev.text)]

\* C14: a run whose upstream events are an optional message-start followed by
\* content deltas with non-empty texts d1..dn translates them to one
\* TextMessageStart with a new id X followed by TextMessageContent(X, d1), ...,
\* TextMessageContent(X, dn) in that order; and a message-start or content
\* delta translated while a message is open emits no TextMessageStart and
\* keeps the id of the open message.
C14_TextTranslation ==
    \A g \in Gens :
        gen[g].kind = "run" =>
            /\ IsTextSequence(pulled[g]) =>
                  LET X == pulled[g][1].fresh
                      expected == <<TextMessageStartEvent(X)>> \o ContentsOf(pulled[g], X)
                  IN  /\ gen[g].st0.current_message_id = None
                      /\ X # None
                      /\ Replay(pulled[g], gen[g].st0).events = expected
                      /\ heap[gen[g].obj].current_message_id = X
                      /\ gen[g].pc = "pull" =>
                            Out(g) = <<RunStartedEvent(gen[g].thread_id, gen[g].run_id)>> \o expected
            /\ \A j \in 1..Len(pulled[g]) :
                  LET ev == pulled[g][j].ev
                      st == StateBefore(g, j)
                      r == ConvertStrandsToAguiEvents(ev, st, pulled[g][j].fresh)
                  IN  (st.current_message_id # None /\ (ev.shape = "messageStart" \/ IsTextDelta(ev))) =>
                          /\ \A i \in 1..Len(r.events) :
                                /\ r.events[i].type # "TEXT_MESSAGE_START"
                                /\ r.events[i].id = st.current_message_id
                          /\ r.state.current_message_id = st.current_message_id

\* message-start, "Hi", " there" translated and yielded under one message id
C14_Witness ==
    \E g \in Gens :
        /\ gen[g].kind = "run" /\ gen[g].pc = "pull"
        /\ Len(pulled[g]) = 3 /\ IsTextSequence(pulled[g])
        /\ pulled[g][1].ev.shape = "messageStart"
        /\ Out(g) = <<RunStartedEvent("x", "y"), TextMessageStartEvent("u1"),
                      TextMessageContentEvent("u1", "Hi"),
                      TextMessageContentEvent("u1", " there")>>

\* the upstream event announces or updates a tool call
IsToolUse(ev) == ev.shape \in {"contentBlockStart", "current_tool_use"}

\* C15: the upstream event that first makes a tool_call_id known (a
\* tool-use-start or a streaming update for an id without an entry in
\* pending_tools) is translated to events that hold exactly one ToolCallArgs
\* for the id, carrying the input of that event; a streaming update for an id
\* that already has an entry is translated to no event.
C15_ArgsOnce ==
    \A g \in Gens :
        gen[g].kind = "run" =>
            \A j \in 1..Len(pulled[g]) :
                LET ev == pulled[g][j].ev
                    st == StateBefore(g, j)
                    r == ConvertStrandsToAguiEvents(ev, st, pulled[g][j].fresh)
                IN  /\ (IsToolUse(ev) /\ ~DictHas(st.pending_tools, ev.id)) =>
                        /\ CountFor(r.events, "TOOL_CALL_ARGS", ev.id) = 1
                        /\ \A i \in 1..Len(r.events) :
                              r.events[i].type = "TOOL_CALL_ARGS" => r.events[i].val = PyStr(ev.input)
                    /\ (ev.shape = "current_tool_use" /\ DictHas(st.pending_tools, ev.id)) =>
                        r.events = <<>>

\* the names of the frontend tools declared by the run whose ExecutionState g holds
DeclaredTools(g) ==
    LET tools == RunInput(gen[gen[g].obj].input).tools
    IN  {tools[i] : i \in 1..Len(tools)}

\* the i-th upstream event of g is a stop with reason tool_use, while a tool
\* declared by the frontend has an entry in pending_tools
ToolUseStopAt(g, i) ==
    /\ LastOf(pulled[g][i].ev) = "messageStop:tool_use"
    /\ \E k \in 1..Len(StateBefore(g, i).pending_tools) :
          StateBefore(g, i).pending_tools[k].name \in DeclaredTools(g)

\* g went back to the engine after the stop: the engine goes on to call the
\* tool, which is frontend_tool with its RuntimeError
FrontendToolBodyReached(g) ==
    \E i \in 1..Len(pulled[g]) :
        /\ ToolUseStopAt(g, i)
        /\ i < Len(pulled[g]) \/ gen[g].pc = "pull"

\* C16: in run_streaming and in continue_after_tools, a stop with reason
\* tool_use for a frontend-declared tool is the last upstream event the
\* generator pulls: it does not resume the engine's stream after it, so the
\* engine never calls the body of a frontend tool.
C16_NoPullAfterToolUse ==
    \A g \in Gens :
        (gen[g].kind \in {"run", "cont"} /\ gen[g].obj # 0) => ~FrontendToolBodyReached(g)

\* the generator has started and has not yielded its terminal event
Unfinished(g) == gen[g].kind \in {"run", "cont"} /\ gen[g].pc \notin {"done", "cancelled"}

\* C17: through POST /continue, a request that finds no ExecutionState for its
\* key, or one that is not waiting_for_tools, is rejected and yields no event;
\* continue_after_tools starts only on an ExecutionState that exists and has
\* waiting_for_tools = true; and under every interleaving of the requests it
\* never executes while a run_streaming for the same key is unfinished.
C17_ResumeGuarded ==
    \A g \in Gens :
        /\ gen[g].kind = "request" /\ gen[g].pc = "done" =>
              /\ gen[g].ended \in {"rejected:404", "rejected:400"}
              /\ Out(g) = <<>> /\ pulled[g] = <<>>
        /\ gen[g].kind = "cont" =>
              /\ gen[g].obj # 0
              /\ gen[g].st0.waiting_for_tools
              /\ Unfinished(g) =>
                    \A h \in Gens :
                        (gen[h].kind = "run" /\ gen[h].thread_id = gen[g].thread_id
                            /\ gen[h].run_id = gen[g].run_id) => ~Unfinished(h)

\* the tool-result turns appended by the continue_after_tools calls 1..n on
\* ExecutionState object o
RECURSIVE ResultTurns(_, _)
ResultTurns(o, n) ==
    IF n = 0 THEN <<>>
    ELSE ResultTurns(o, n - 1)
         \o (IF gen[n].kind = "cont" /\ gen[n].obj = o
             THEN ToolResultMessages(gen[n].results) ELSE <<>>)

\* the history of the run of ExecutionState object o: its converted inbound
\* messages and its tool-result turns
OwnHistory(o) == ConvertMessages(RunInput(gen[o].input).messages).msgs \o ResultTurns(o, MaxCalls)

\* g has called stream_async and is between its first and its last pull
Streaming(g) == gen[g].kind \in {"run", "cont"} /\ gen[g].pc \in {"pull", "yielded"}

\* C18: while run_streaming or continue_after_tools of a run is streaming from
\* the engine, the engine's history is this run's converted inbound messages
\* followed by this run's tool-result turns, whatever the runs of other keys
\* did before.
C18_OwnHistory ==
    \A g \in Gens : Streaming(g) => messages = OwnHistory(gen[g].obj)

\* C19: when the consumer closes run_streaming or continue_after_tools while
\* it is suspended at a yield, the generator ends there: the step yields no
\* event, and from then on the generator yields no event, not even
\* RunFinished or RunError, and pulls no upstream event.
C19_CancelIsSilent ==
    /\ [](\A g \in Gens :
            gen[g].ended = "cancelled" =>
                /\ gen[g].pc = "cancelled"
                /\ CountOf(Out(g), TerminalTypes) = 0)
    /\ [][\A g \in Gens :
            gen'[g].ended = "cancelled" =>
                /\ SelectSeq(trace', LAMBDA x : x.g = g) = SelectSeq(trace, LAMBDA x : x.g = g)
                /\ pulled'[g] = pulled[g]
                /\ heap' = heap \/ gen[g].ended = "cancelled"
       ]_vars

\* a continue_after_tools call was closed after it had yielded a translated
\* event, and another generator ran to its end afterwards
C19_Witness ==
    \E g \in Gens :
        /\ gen[g].kind = "cont" /\ gen[g].ended = "cancelled"
        /\ Len(pulled[g]) >= 1 /\ Len(Out(g)) >= 2
        /\ \E h \in Gens : h > g /\ gen[h].pc = "done"

\* C20: when a generator has yielded its terminal event, RunFinished or
\* RunError, every TextMessageStart of its stream is followed by exactly one
\* TextMessageEnd with the same message_id, and no message is open at the
\* terminal event.
C20_ClosedAtTerminal ==
    \A g \in Gens :
        (gen[g].kind \in {"run", "cont"} /\ gen[g].pc = "done") =>
            LET out == Out(g)
            IN  /\ OpenMessage(out, Len(out) - 1) = None
                /\ \A X \in StartedIn(out) :
                      /\ CountFor(out, "TEXT_MESSAGE_END", X) = 1
                      /\ FirstOf(out, "TEXT_MESSAGE_START", X) < FirstOf(out, "TEXT_MESSAGE_END", X)

\* C21: in every state, the current_message_id of an ExecutionState is the id
\* of the text message that is open in its stream (TextMessageStart yielded,
\* TextMessageEnd not yet), and null when no message is open: after
\* TextMessageEnd it is null again.
C21_MessageIdWhileOpen ==
    \A o \in DOMAIN heap :
        heap[o].current_message_id = OpenMessage(StreamOf(o), Len(StreamOf(o)))

\* the run of ExecutionState object o ended paused: RunFinished with status
\* waiting_for_tools
Paused(o) ==
    /\ gen[o].pc = "done" /\ gen[o].ended = "finished"
    /\ Last(Out(o)).val = "waiting_for_tools"

\* continue_after_tools was called on ExecutionState object o
Resumed(o) == \E g \in Gens : gen[g].kind = "cont" /\ gen[g].obj = o

\* C22: waiting_for_tools of an ExecutionState is true exactly while its run
\* is paused for tools: true once run_streaming has ended with status
\* waiting_for_tools, and false again once continue_after_tools has been
\* called on it, whether that call is streaming, finished or failed.
C22_WaitingWhilePaused ==
    \A o \in DOMAIN heap :
        heap[o].waiting_for_tools <=> (Paused(o) /\ ~Resumed(o))

\* C23: after a streaming update (current_tool_use) for a tool_call_id is
\* translated, the input stored for that id in pending_tools is the input of
\* the update, also when the id was already registered.
C23_LatestInputStored ==
    \A g \in Gens :
        gen[g].kind = "run" =>
            \A j \in 1..Len(pulled[g]) :
                LET ev == pulled[g][j].ev
                    after == StateBefore(g, j + 1)
                IN  ev.shape = "current_tool_use" =>
                        /\ DictHas(after.pending_tools, ev.id)
                        /\ DictGet(after.pending_tools, ev.id).input = ev.input

\* the toolUse items of a content list, in its order
ToolUseItems(items) == SelectSeq(items, LAMBDA x : x.kind = "toolUse")

\* ToolCallArgs with the input, then ToolCallEnd, for each item in order
RECURSIVE ArgsThenEnd(_)
ArgsThenEnd(items) ==
    IF items = <<>> THEN <<>>
    ELSE <<ToolCallArgsEvent(Head(items).id, PyStr(Head(items).input)),
           ToolCallEndEvent(Head(items).id)>> \o ArgsThenEnd(Tail(items))

\* C24: a complete-message snapshot of the assistant is translated to
\* ToolCallArgs carrying the item's input immediately followed by ToolCallEnd,
\* for every tool-use item of the snapshot in its order, and every tool-use
\* item whose id had no entry in pending_tools has one afterwards.
C24_SnapshotArgsEnd ==
    \A g \in Gens :
        gen[g].kind = "run" =>
            \A j \in 1..Len(pulled[g]) :
                LET ev == pulled[g][j].ev
                    r == ConvertStrandsToAguiEvents(ev, StateBefore(g, j), pulled[g][j].fresh)
                IN  (ev.shape = "message" /\ ev.text = "assistant") =>
                        /\ ToolUseIds(ev.items) \subseteq DictKeys(r.state.pending_tools)
                        /\ r.events = ArgsThenEnd(ToolUseItems(ev.items))

\* the shapes the translator has a branch for
TranslatedShapes ==
    {"messageStart", "contentBlockDelta", "contentBlockStart", "current_tool_use",
     "message", "modelStreamChunk"}

\* C25: an upstream event of a shape the translator has no branch for is
\* translated to no event, leaves the ExecutionState as it was and does not
\* raise: the run does not end with RunError because of it.
C25_UnrecognizedIgnored ==
    \A g \in Gens :
        gen[g].kind = "run" =>
            \A j \in 1..Len(pulled[g]) :
                LET ev == pulled[g][j].ev
                    st == StateBefore(g, j)
                    r == ConvertStrandsToAguiEvents(ev, st, pulled[g][j].fresh)
                IN  ev.shape \notin TranslatedShapes =>
                        /\ r.events = <<>>
                        /\ r.state = st
                        /\ ~r.raised
                        /\ j = Len(pulled[g]) => gen[g].ended # "error:translator"

\* the value stored under id in a dict of results ("": no entry)
ResultOf(d, id) == IF DictHas(d, id) THEN DictGet(d, id).result ELSE ""

\* C26: the first step of continue_after_tools on a registered run, called
\* with results R, leaves tool_results equal to the previous dict overridden
\* by R, and appends to the engine's history one user-role tool-result turn
\* per entry of R, in R's order, with the entry's tool_call_id and result
\* text; the history it found is unchanged before them, and the engine has
\* not been pulled yet.
C26_ResumeMerges ==
    [][\A g \in Gens :
          (gen[g].kind = "idle" /\ gen'[g].kind = "cont" /\ gen'[g].obj # 0) =>
              LET o == gen'[g].obj
                  R == gen'[g].results
                  old == heap[o].tool_results
                  new == heap'[o].tool_results
                  n == Len(messages)
              IN  /\ DictKeys(new) = DictKeys(old) \cup DictKeys(R)
                  /\ Cardinality(DictKeys(new)) = Len(new)
                  /\ \A id \in DictKeys(new) :
                        ResultOf(new, id) = IF DictHas(R, id) THEN ResultOf(R, id)
                                            ELSE ResultOf(old, id)
                  /\ Len(messages') = n + Len(R)
                  /\ SubSeq(messages', 1, n) = messages
                  /\ \A i \in 1..Len(R) :
                        /\ messages'[n + i].role = "user"
                        /\ messages'[n + i].content =
                              <<ToolResultBlock(R[i].id, R[i].result, "success")>>
                  /\ pulled'[g] = <<>>
      ]_vars

\* a run resumed twice: the second call overrode t1 and kept t2, and the
\* history holds the four inbound messages and the three tool-result turns
C26_Witness ==
    \E g \in Gens :
        /\ gen[g].kind = "cont" /\ gen[g].obj # 0
        /\ gen[g].results = <<[id |-> "t1", result |-> "4"]>>
        /\ ResultOf(heap[gen[g].obj].tool_results, "t1") = "4"
        /\ ResultOf(heap[gen[g].obj].tool_results, "t2") = "ok"
        /\ Len(messages) = 7

\* the last event of the log is a stop with reason tool_use, and pending_tools
\* is not empty after the log is translated
PausedBy(log, st) ==
    /\ log # <<>>
    /\ LastOf(Last(log).ev) = "messageStop:tool_use"
    /\ Replay(log, st).state.pending_tools # <<>>

\* C27: when run_streaming leaves its loop over the upstream events without
\* an exception, either the engine's stream was exhausted, or the last event
\* pulled is a stop with reason tool_use and pending_tools is not empty; a
\* stop with reason tool_use seen while pending_tools is empty does not end
\* the loop.
C27_StopsOnlyToPause ==
    [][\A g \in Gens :
          (/\ gen[g].kind = "run" /\ gen[g].pc \in {"pull", "yielded"}
           /\ gen'[g].pc \in {"closed", "done"}
           /\ gen'[g].ended \in {"", "finished"}) =>
              \/ gen[g].pc = "pull" /\ pulled'[g] = pulled[g]
              \/ PausedBy(pulled'[g], gen[g].st0)
      ]_vars

\* C28: whenever run_streaming is about to pull the next upstream event, every
\* event translated from the events pulled so far has been yielded, in the
\* order the translator returned them, and no translated event is held back;
\* while it is suspended at a yield, the events yielded followed by those
\* still in agui_events are the translation of the events pulled so far.
C28_StreamingDelivery ==
    \A g \in Gens :
        (gen[g].kind = "run" /\ gen[g].pc \in {"pull", "yielded"}) =>
            /\ Tail(Out(g)) \o gen[g].batch = Replay(pulled[g], gen[g].st0).events
            /\ gen[g].pc = "pull" => gen[g].batch = <<>>

\* two upstream events translated, the second to two events, all yielded
\* before the next pull
C28_Witness ==
    \E g \in Gens :
        /\ gen[g].kind = "run" /\ gen[g].pc = "pull"
        /\ Len(pulled[g]) = 2
        /\ Len(ConvertStrandsToAguiEvents(pulled[g][2].ev, StateBefore(g, 2),
                                          pulled[g][2].fresh).events) = 2
        /\ Len(Out(g)) = 4

\* the argument strings of the model that are JSON documents
IsJson(s) == s \in {"{}", "{\"expression\": \"2+2\"}"}

\* an assistant message of ms carries a tool call whose arguments are not JSON
HasMalformedToolCall(ms) ==
    \E i \in 1..Len(ms) :
        /\ ms[i].role = "assistant"
        /\ \E k \in 1..Len(ms[i].tool_calls) : ~IsJson(ms[i].tool_calls[k].arguments)

\* C29: a run_streaming call whose inbound messages hold an assistant tool
\* call with arguments that are not valid JSON never pulls from the engine
\* and sets no history on it; once it has gone past RunStarted its stream is
\* RunStarted followed by one RunError, and it has ended.
C29_MalformedArguments ==
    \A g \in Gens :
        (gen[g].kind = "run" /\ HasMalformedToolCall(RunInput(gen[g].input).messages)) =>
            /\ pulled[g] = <<>>
            /\ messages = <<>>
            /\ gen[g].pc \in {"started", "done"}
            /\ gen[g].pc = "done" =>
                  /\ gen[g].ended = "error:conversion"
                  /\ Out(g) = <<RunStartedEvent(gen[g].thread_id, gen[g].run_id),
                                RunErrorEvent("AGENT_ERROR")>>

\* the run with the malformed tool call has ended
C29_Witness ==
    \E g \in Gens :
        /\ gen[g].kind = "run" /\ gen[g].input = "badjson"
        /\ HasMalformedToolCall(RunInput(gen[g].input).messages)
        /\ gen[g].pc = "done" /\ Len(Out(g)) = 2

\* the (thread_id, run_id) pair ExecutionState object o was created for
PairOfState(o) == <<heap[o].thread_id, heap[o].run_id>>

\* C30: with runs of different (thread_id, run_id) pairs interleaved, a step
\* of run_streaming or continue_after_tools made for one pair changes no
\* field of an ExecutionState that was created for another pair.
C30_OtherRunStateUnchanged ==
    [][\A g \in Gens : \A o \in DOMAIN heap :
          (/\ gen'[g] # gen[g]
           /\ PairOfState(o) # <<gen'[g].thread_id, gen'[g].run_id>>) =>
              heap'[o] = heap[o]
      ]_vars

\* C31: tool_results of an ExecutionState is empty as long as
\* continue_after_tools has not been called on it, and a step changes it only
\* when that step is a call of continue_after_tools that found this state;
\* run_streaming and the translation of every upstream event leave it as it is.
C31_ResultsOnlyByResume ==
    /\ [](\A o \in DOMAIN heap : ~Resumed(o) => heap[o].tool_results = <<>>)
    /\ [][\A o \in DOMAIN heap :
              heap'[o].tool_results # heap[o].tool_results =>
                  \E g \in Gens : /\ gen[g].kind = "idle" /\ gen'[g].kind = "cont"
                                   /\ gen'[g].obj = o
        ]_vars

\* a run has translated a tool call and paused, a resume has recorded a
\* result and translated an upstream event, and a later run's state is empty
C31_Witness ==
    \E g, h, r \in Gens :
        /\ gen[g].kind = "run" /\ gen[g].pc = "done" /\ Len(pulled[g]) >= 1
        /\ gen[h].kind = "cont" /\ gen[h].obj = gen[g].obj
        /\ heap[gen[g].obj].tool_results # <<>>
        /\ gen[r].kind = "run" /\ r # g /\ heap[gen[r].obj].tool_results = <<>>

\* run_streaming g has converted its inbound messages and set them as the
\* engine's history
Converted(g) ==
    /\ gen[g].kind = "run" /\ gen[g].pc # "started"
    /\ gen[g].ended # "error:conversion"

\* the inbound tool message carries an error marker: a non-empty error string
HasErrorMarker(m) == m.error # None /\ m.error # ""

\* C32: once run_streaming has converted its inbound messages, the history
\* holds, at the place of every inbound tool message, an entry of role user
\* whose content is one toolResult block with the message's tool_call_id and
\* content text, of status error when the message has a non-empty error
\* string and success otherwise; the conversion step changes no
\* ExecutionState, no registration and draws no uuid.
C32_ToolResultTurn ==
    /\ [](\A g \in Gens : Converted(g) =>
              LET ms == RunInput(gen[g].input).messages
              IN  /\ Len(messages) = Len(ms)
                  /\ \A i \in 1..Len(ms) : ms[i].role = "tool" =>
                        /\ messages[i].role = "user"
                        /\ Len(messages[i].content) = 1
                        /\ messages[i].content[1].kind = "toolResult"
                        /\ messages[i].content[1].id = ms[i].tool_call_id
                        /\ messages[i].content[1].text = ms[i].content
                        /\ messages[i].content[1].status =
                              (IF HasErrorMarker(ms[i]) THEN "error" ELSE "success"))
    /\ [][\A g \in Gens :
              (gen[g].pc = "started" /\ gen'[g].pc # "started") =>
                  /\ heap' = heap /\ execution_states' = execution_states
                  /\ uuid_next' = uuid_next
        ]_vars

\* a run has converted a failed tool result and a successful one
C32_Witness ==
    \E g \in Gens :
        /\ Converted(g) /\ gen[g].input = "failed"
        /\ messages[3].content[1].status = "error"
        /\ messages[4].content[1].status = "success"

\* the tool_call_ids of the toolUse blocks of assistant entries hist[1..n]
ToolUsesBefore(hist, n) ==
    { hist[j].content[k].id :
        <<j, k>> \in { <<j, k>> \in (1..n) \X (1..4) :
                         /\ hist[j].role = "assistant"
                         /\ k <= Len(hist[j].content)
                         /\ hist[j].content[k].kind = "toolUse" } }

\* C33: in the history run_streaming sets on the engine, every toolResult
\* block comes after an assistant entry with a toolUse block of the same
\* tool_call_id.
C33_ToolResultHasToolUse ==
    \A g \in Gens : Converted(g) =>
        \A i \in 1..Len(messages) : \A k \in 1..Len(messages[i].content) :
            messages[i].content[k].kind = "toolResult" =>
                messages[i].content[k].id \in ToolUsesBefore(messages, i - 1)

\* C34: in the stream of a run_streaming call, every ToolCallArgs and every
\* ToolCallEnd comes after a ToolCallStart with the same tool_call_id, also
\* when the first upstream event that names the id is a complete message.
C34_StartBeforeArgsAndEnd ==
    \A g \in Gens : gen[g].kind = "run" =>
        LET s == Out(g)
        IN  \A i \in 1..Len(s) :
                s[i].type \in {"TOOL_CALL_ARGS", "TOOL_CALL_END"} =>
                    \E j \in 1..(i - 1) :
                        s[j].type = "TOOL_CALL_START" /\ s[j].id = s[i].id

\* a contentBlockDelta whose delta text is the empty string
IsEmptyDelta(ev) == ev.shape = "contentBlockDelta" /\ ev.text = ""

\* C35: when run_streaming pulls a content delta whose text is the empty
\* string, it yields nothing for it, leaves the ExecutionState as it was (no
\* message is opened), and goes on to pull the next upstream event; the run
\* does not end with RunError because of it.
C35_EmptyDeltaSkipped ==
    [][\A g \in Gens :
          (/\ gen[g].kind = "run"
           /\ Len(pulled'[g]) = Len(pulled[g]) + 1
           /\ IsEmptyDelta(pulled'[g][Len(pulled'[g])].ev)) =>
              /\ trace' = trace
              /\ heap' = heap
              /\ gen'[g].pc = "pull" /\ gen'[g].ended = ""
      ]_vars

\* C36: the ExecutionState that get_execution_state returns for a
\* (thread_id, run_id) pair, and the one a continue_after_tools call for the
\* pair works on, was created by run_streaming for that same pair, also for
\* identifiers that contain ':'.
C36_PairsAddressOwnState ==
    /\ \A p \in Pairs :
          LET o == GetExecutionState(p[1], p[2])
          IN  o # 0 => PairOfState(o) = p
    /\ \A g \in Gens :
          (gen[g].kind = "cont" /\ gen[g].obj # 0) =>
              PairOfState(gen[g].obj) = <<gen[g].thread_id, gen[g].run_id>>

\* ExecutionState object o is no longer the one registered under its key
Replaced(o) == execution_states[ExecKey(heap[o].thread_id, heap[o].run_id)] # o

\* C37: the step that starts run_streaming creates a new ExecutionState with
\* empty pending_tools and tool_results, no message id and waiting_for_tools
\* false, registers it under the key in place of whatever was there, yields
\* RunStarted and changes no other ExecutionState; a continue_after_tools call
\* takes the state registered at that time, never a replaced one, and a state
\* is changed only by a generator that holds it.
C37_FreshStateOnStart ==
    /\ [][\A g \in Gens :
              (gen[g].kind = "idle" /\ gen'[g].kind = "run") =>
                  LET o == execution_states'[ExecKey(gen'[g].thread_id, gen'[g].run_id)]
                  IN  /\ o = gen'[g].obj /\ o \notin DOMAIN heap
                      /\ heap'[o].pending_tools = <<>> /\ heap'[o].tool_results = <<>>
                      /\ heap'[o].current_message_id = None
                      /\ heap'[o].waiting_for_tools = FALSE
                      /\ trace' = Append(trace,
                                   [g |-> g, ev |-> RunStartedEvent(gen'[g].thread_id,
                                                                    gen'[g].run_id)])
                      /\ \A old \in DOMAIN heap : heap'[old] = heap[old]
        ]_vars
    /\ [][\A g \in Gens :
              (gen[g].kind = "idle" /\ gen'[g].kind = "cont" /\ gen'[g].obj # 0) =>
                  ~Replaced(gen'[g].obj)
        ]_vars
    /\ [][\A o \in DOMAIN heap :
              heap'[o] # heap[o] =>
                  \E g \in Gens : gen'[g] # gen[g] /\ gen'[g].obj = o
        ]_vars

\* a run paused for tools, a second run on the same key replaced its state,
\* and continue_after_tools was then called for the key
C37_Witness ==
    \E g, h, c \in Gens :
        /\ gen[g].kind = "run" /\ gen[h].kind = "run" /\ g < h /\ h < c
        /\ ExecKey(gen[g].thread_id, gen[g].run_id) = ExecKey(gen[h].thread_id, gen[h].run_id)
        /\ heap[gen[g].obj].waiting_for_tools
        /\ heap[gen[g].obj].pending_tools # <<>>
        /\ Replaced(gen[g].obj)
        /\ gen[c].kind = "cont" /\ gen[c].obj = gen[h].obj
        /\ heap[gen[h].obj].pending_tools = <<>>

\* run_non_streaming's loop over the first i events of run_streaming:
\* final_status starts as "completed" and is assigned by every RUN_FINISHED
\* event; events of other types, RUN_ERROR among them, leave it as it is
RECURSIVE FinalStatus(_, _)
FinalStatus(s, i) ==
    IF i = 0 THEN "completed"
    ELSE IF s[i].type = "RUN_FINISHED" THEN s[i].val
    ELSE FinalStatus(s, i - 1)

\* the status run_non_streaming returns after consuming run_streaming g to
\* its end; run_streaming lets no Exception out, so the handler that returns
\* "error" is not entered
RunNonStreamingStatus(g) == FinalStatus(Out(g), Len(Out(g)))

\* C38: for a run_streaming call consumed to its end, the status
\* run_non_streaming returns is the result status of its RunFinished event
\* when it ended with RunFinished, and "error" when it ended with RunError.
C38_NonStreamingStatus ==
    \A g \in Gens :
        (gen[g].kind = "run" /\ gen[g].pc = "done") =>
            /\ Last(Out(g)).type = "RUN_FINISHED" =>
                  RunNonStreamingStatus(g) = Last(Out(g)).val
            /\ Last(Out(g)).type = "RUN_ERROR" =>
                  RunNonStreamingStatus(g) = "error"
====
